---- MODULE Spec2Model ----
(***************************************************************************)
(* KrishiVaani agent module (src/backend/agent.py): the session store, the *)
(* tool-calling agent graph with its checkpointer, the speech path and the *)
(* rollback controller.                                                    *)
(*                                                                         *)
(* Strings are sequences of tokens, so that an f-string is the             *)
(* concatenation of its literal pieces and its arguments, and "begins      *)
(* with" is a statement about the first token.                             *)
(*                                                                         *)
(* The graph is compiled with a MemorySaver checkpointer (agent.py         *)
(* 365-366).  The model follows what the library does for the calls the    *)
(* module makes:                                                           *)
(*   - ainvoke(state, config) on a thread loads the thread's latest        *)
(*     checkpoint, saves an "input" checkpoint (the state before the       *)
(*     input is applied), then one "loop" checkpoint after every step:     *)
(*     after START has written the input into the channels, after the      *)
(*     agent node, after the tools node;                                   *)
(*   - the messages channel is reduced with add_messages (agent.py 295):   *)
(*     a written message replaces the stored message with the same id and  *)
(*     is appended otherwise; the other channels keep the last value;      *)
(*   - get_state_history(config) lists the thread's checkpoints, newest    *)
(*     first;                                                              *)
(*   - update_state(config, values) writes values into the channels of     *)
(*     the thread's latest checkpoint, through the reducers, and saves     *)
(*     the outcome as a new "update" checkpoint;                           *)
(*   - a run that is given no recursion_limit (agent.py 455 gives none)    *)
(*     makes at most 25 steps, START being step 0, the agent node the odd  *)
(*     steps and the tools node the even ones, and raises                  *)
(*     GraphRecursionError when the limit is reached;                      *)
(*   - a run keeps its channels in memory: a second ainvoke on the thread  *)
(*     while the first is suspended loads the latest checkpoint the first  *)
(*     has saved, drops its pending step, and goes on from there on its    *)
(*     own; the checkpoint saved last is the thread's latest.              *)
(* Timestamps of turn records and generated session ids are left out.      *)
(***************************************************************************)
EXTENDS Integers, Sequences, FiniteSets, TLC

VARIABLES
    sessions,     \* agent.py 55: session id -> list of turn records (a dict)
    checkpoints,  \* memory_saver: thread id -> checkpoints, oldest first
    nextId,       \* per thread: the next fresh message id
    pc,           \* per task: where the coroutine is suspended
    task,         \* per task: the locals of the call in flight
    ret,          \* per task: what the last finished call returned or raised
    spoken,       \* history: the sessions process_speech_chat has saved a turn to
    toolIn,       \* the tool invocation under test: name, args, backend outcome
    toolOut       \* what that invocation returned, and the requests it made

vars == <<sessions, checkpoints, nextId, pc, task, ret, spoken, toolIn, toolOut>>

(* ----------------------------- bounds -------------------------------- *)

MaxStore == 8      \* checkpoints held by memory_saver, all threads together
MaxRecords == 2    \* turn records held by sessions, all sessions together
MaxUpdates == 2    \* checkpoints written by explicit rollbacks, all threads together
MaxSteps == 3      \* largest steps argument tried in rollback_conversation

SessionIds == {"s1", "s2"}
Tasks == {1, 2}
SpeechQueries == {<<"q3">>}

None == "None"
Unset == "<unset>"

(* --------------------------- sequences -------------------------------- *)

RECURSIVE SumLen(_, _)
SumLen(f, S) ==
    IF S = {} THEN 0
    ELSE LET x == CHOOSE y \in S : TRUE
         IN Len(f[x]) + SumLen(f, S \ {x})

\* Python xs[:n] for 0 <= n
Take(xs, n) == SubSeq(xs, 1, IF n < Len(xs) THEN n ELSE Len(xs))

\* Python xs[:-k]: xs[:len(xs)-k] for k > 0, and xs[:0] for k = 0
SliceDropLast(xs, k) ==
    IF k = 0 THEN <<>> ELSE Take(xs, IF Len(xs) - k > 0 THEN Len(xs) - k ELSE 0)

Contains(xs, x) == \E i \in 1..Len(xs) : xs[i] = x

\* The members of the sequences of xss, in order: member j of sequence i is
\* at the place that counts the members before it.
Flatten(xss) ==
    LET places == UNION {{<<i, j>> : j \in 1..Len(xss[i])} : i \in 1..Len(xss)}
        Before(p) == {q \in places : q[1] < p[1] \/ (q[1] = p[1] /\ q[2] < p[2])}
    IN [k \in 1..Cardinality(places) |->
           LET p == CHOOSE q \in places : Cardinality(Before(q)) = k - 1
           IN xss[p[1]][p[2]]]

(* ------------------------------ tools --------------------------------- *)

WEATHER_API_URL == "http://localhost:8080"
PEST_API_URL == "http://localhost:8080"
MARKET_API_URL == "http://localhost:8080"

\* What the backend does with one request.
Bodies == {"{\"a\": 1}", "{\"a\":1}", "<html>"}
HttpOutcomes ==
    [kind : {"response"}, status_code : {200}, body : Bodies]
    \cup [kind : {"response"}, status_code : {404, 500}, body : {"<html>"}]
    \cup [kind : {"exception"}, status_code : {0}, body : {"ConnectError", "ReadTimeout"}]

\* response.json(): the parsed body, or a JSONDecodeError
ResponseJson(body) ==
    IF body \in {"{\"a\": 1}", "{\"a\":1}"}
    THEN [raises |-> FALSE, data |-> [a |-> 1]]
    ELSE [raises |-> TRUE, data |-> "JSONDecodeError"]

\* json.dumps(data, ensure_ascii=False): ", " and ": " separators
JsonDumps(data) == "{\"a\": " \o ToString(data.a) \o "}"

\* Variant of HttpTool: a status other than 200 is raised, not answered.
HttpTool_RaisesForStatus(url, path, params, outcome, sorry, unavailable) ==
    LET request == [url |-> url, path |-> path, params |-> params]
    IN  IF outcome.kind = "exception"
        THEN [raised |-> FALSE, requests |-> <<request>>,
              value |-> <<unavailable, outcome.body>>]
        ELSE IF outcome.status_code = 200 /\ ~ResponseJson(outcome.body).raises
        THEN [raised |-> FALSE, requests |-> <<request>>,
              value |-> <<JsonDumps(ResponseJson(outcome.body).data)>>]
        ELSE [raised |-> TRUE, requests |-> <<request>>, value |-> <<>>]

\* The body of the three HTTP tools: one GET, then the string by outcome.
HttpTool(url, path, params, outcome, sorry, unavailable) ==
    LET request == [url |-> url, path |-> path, params |-> params]
        parsed == ResponseJson(outcome.body)
    IN  IF outcome.kind = "exception"
        THEN [raised |-> FALSE, requests |-> <<request>>,
              value |-> <<unavailable, outcome.body>>]
        ELSE IF outcome.status_code = 200
        THEN IF parsed.raises
             THEN [raised |-> FALSE, requests |-> <<request>>,
                   value |-> <<unavailable, parsed.data>>]
             ELSE [raised |-> FALSE, requests |-> <<request>>,
                   value |-> <<JsonDumps(parsed.data)>>]
        ELSE [raised |-> FALSE, requests |-> <<request>>, value |-> sorry]

\* params of a tool with an optional crop: the crop only when it is truthy
WithCrop(params, crop) ==
    IF crop \in {None, ""} THEN params ELSE params \o <<<<"crop", crop>>>>

get_weather_advisory(location, crop, outcome) ==
    HttpTool(WEATHER_API_URL, "/api/weather",
             WithCrop(<<<<"location", location>>>>, crop), outcome,
             <<"Could not fetch", " weather data for ", location, ". Please try again.">>,
             "Weather service temporarily unavailable. Error: ")

get_pest_information(pest_name, crop, outcome) ==
    HttpTool(PEST_API_URL, "/api/pest",
             WithCrop(<<<<"pest", pest_name>>>>, crop), outcome,
             <<"Could not fetch", " pest information for ", pest_name, ". Please try again.">>,
             "Pest information service temporarily unavailable. Error: ")

get_market_prices(commodity, location, outcome) ==
    HttpTool(MARKET_API_URL, "/api/market",
             <<<<"commodity", commodity>>, <<"location", location>>>>, outcome,
             <<"Could not fetch", " market prices for ", commodity, " in ", location, ".">>,
             "Market price service temporarily unavailable. Error: ")

general_agriculture_query(query) ==
    [raised |-> FALSE, requests |-> <<>>,
     value |-> <<"Please provide helpful agricultural advice for: ", query,
                 ". Include practical tips relevant to Indian farmers.">>]

\* tools[name](args): the dispatch of a tool call
RunTool(name, args, outcome) ==
    CASE name = "get_weather_advisory" -> get_weather_advisory(args[1], args[2], outcome)
      [] name = "get_pest_information" -> get_pest_information(args[1], args[2], outcome)
      [] name = "get_market_prices" -> get_market_prices(args[1], args[2], outcome)
      [] OTHER -> general_agriculture_query(args[1])

(* ----------------------------- messages ------------------------------- *)

AGENT_SYSTEM_PROMPT == <<"You are KrishiVaani, an expert agricultural advisor for Indian farmers.">>
SPEECH_SYSTEM_PROMPT == <<"You are KrishiVaani, a helpful agricultural advisor for Indian farmers.">>
APOLOGY == <<"I apologize, I could not process your request. Please try again.">>
SPEECH_FALLBACK == <<"I could not process your request. Please try again.">>

\* id 0: the message has no id yet (add_messages gives it one when it stores it)
Message(type, content, tool_calls) ==
    [type |-> type, id |-> 0, content |-> content, tool_calls |-> tool_calls,
     name |-> None, tool_call_id |-> <<>>]
SystemMessage(content) == Message("system", content, <<>>)
HumanMessage(content) == Message("human", content, <<>>)
AIMessage(content) == Message("ai", content, <<>>)
ToolMessage(content, name, tool_call_id) ==
    [Message("tool", content, <<>>) EXCEPT !.name = name, !.tool_call_id = tool_call_id]

\* The fresh ids first, first+1, ... for messages that have none.
WithIds(msgs, first) ==
    [i \in 1..Len(msgs) |-> [msgs[i] EXCEPT !.id = first + i - 1]]

IndexOfId(msgs, id) ==
    IF \E i \in 1..Len(msgs) : msgs[i].id = id
    THEN CHOOSE i \in 1..Len(msgs) : msgs[i].id = id
    ELSE 0

\* add_messages(left, right), agent.py 295: the messages of right are merged
\* into left one after the other, a message taking the place of the one with
\* its id and being appended when there is none.  So every message of left
\* that has its id in right becomes the last message of right with that id,
\* and the ids of right that left does not have are appended in the order of
\* their first message in right, each with its last message.
add_messages(left, right) ==
    LET Last(id) ==
            right[CHOOSE j \in 1..Len(right) :
                     /\ right[j].id = id
                     /\ \A h \in (j + 1)..Len(right) : right[h].id # id]
        new == {j \in 1..Len(right) :
                   /\ IndexOfId(left, right[j].id) = 0
                   /\ \A h \in 1..(j - 1) : right[h].id # right[j].id}
    IN [i \in 1..Len(left) |->
           IF IndexOfId(right, left[i].id) # 0 THEN Last(left[i].id) ELSE left[i]]
       \o [k \in 1..Cardinality(new) |->
              Last(right[CHOOSE j \in new : Cardinality({h \in new : h < j}) = k - 1].id)]

(* --------------------------- agent state ------------------------------ *)

\* AgentState, agent.py 293-298; the channels of a thread nobody has written
EmptyState ==
    [messages |-> <<>>, language |-> Unset, user_location |-> Unset,
     current_crop |-> Unset]

LastValue(old, new) == IF new = Unset THEN old ELSE new

\* Writing a state update into the channels: add_messages for messages,
\* last value for the rest; a key the update does not hold is not written.
ApplyWrites(state, update) ==
    [messages |-> add_messages(state.messages, update.messages),
     language |-> LastValue(state.language, update.language),
     user_location |-> LastValue(state.user_location, update.user_location),
     current_crop |-> LastValue(state.current_crop, update.current_crop)]

Checkpoint(values, source) == [values |-> values, source |-> source]

\* Variant of put: the graph is compiled without a checkpointer.
put_Dropped(thread, checkpoint) == thread

\* The checkpointer saves a checkpoint of the thread (compile(checkpointer=memory),
\* agent.py 365-366).
put(thread, checkpoint) == Append(thread, checkpoint)

\* The checkpoints of a thread, newest first
StateHistory(thread) == [i \in 1..Len(thread) |-> thread[Len(thread) + 1 - i]]

\* agent_executor.get_state_history(config): newest first
get_state_history(s) == StateHistory(checkpoints[s])

\* Variant of LatestState: every call starts from an empty thread.
LatestState_Fresh(s) == EmptyState

\* The state of a thread's latest checkpoint
LatestOf(thread) ==
    IF thread = <<>> THEN EmptyState ELSE thread[Len(thread)].values

\* The state of the thread's latest checkpoint (what ainvoke loads)
LatestState(s) == LatestOf(checkpoints[s])

\* Variant of UpdateThread: the update takes the place of the latest checkpoint.
UpdateThread_Replaces(thread, values) ==
    IF thread = <<>>
    THEN <<Checkpoint(ApplyWrites(EmptyState, values), "update")>>
    ELSE [thread EXCEPT ![Len(thread)] =
             Checkpoint(ApplyWrites(LatestOf(thread), values), "update")]

\* update_state on a thread: the values are written into the channels of the
\* latest checkpoint and the outcome is saved as a new checkpoint.
UpdateThread(thread, values) ==
    put(thread, Checkpoint(ApplyWrites(LatestOf(thread), values), "update"))

\* agent_executor.update_state(config, values): the thread's checkpoints afterwards
update_state(s, values) == UpdateThread(checkpoints[s], values)

\* The steps a run may make when it is given no recursion_limit.
RecursionLimit == 25

\* Variant of should_continue: the loop ends after every model response.
should_continue_AlwaysEnd(state) == "END"

\* should_continue, agent.py 336-343
should_continue(state) ==
    LET last_message == state.messages[Len(state.messages)]
    IN IF last_message.tool_calls # <<>> THEN "tools" ELSE "END"

\* Variant of ModelMessages: the stored list goes to the model as it is.
ModelMessages_Stored(state) == state.messages

\* call_model, agent.py 345-352: the message list given to the model
ModelMessages(state) ==
    IF state.messages = <<>> \/ state.messages[1].type # "system"
    THEN <<SystemMessage(AGENT_SYSTEM_PROMPT)>> \o state.messages
    ELSE state.messages

(* ---------------------------- session store --------------------------- *)

\* One turn record; the timestamp is left out.
TurnRecord(query, response) == [query |-> query, response |-> response]

\* Variant of save_to_session: the record takes the place of the session's list.
save_to_session_Overwrites(session_id, query, response) ==
    [x \in DOMAIN sessions \cup {session_id} |->
        IF x = session_id THEN <<TurnRecord(query, response)>> ELSE sessions[x]]

\* save_to_session, agent.py 384-392: the sessions dict afterwards
save_to_session(session_id, query, response) ==
    LET old == IF session_id \in DOMAIN sessions THEN sessions[session_id] ELSE <<>>
    IN [x \in DOMAIN sessions \cup {session_id} |->
           IF x = session_id THEN Append(old, TurnRecord(query, response))
           ELSE sessions[x]]

\* get_session_history, agent.py 395-397
get_session_history(session_id) ==
    IF session_id \in DOMAIN sessions THEN sessions[session_id] ELSE <<>>

(* ------------------------- calls and their results -------------------- *)
\* TotalCheckpoints .. RecordRoom below keep the store within the bounds
\* MaxStore, MaxUpdates and MaxRecords; they model no code.

\* checkpoints_before and records_before remember what the session held when
\* the call began, overlaps the process_chat calls of the session that were
\* suspended then (each named by its checkpoints_before).
NoTask ==
    [op |-> "none", session_id |-> None, query |-> <<>>, state |-> EmptyState,
     model_calls |-> 0, checkpoints_before |-> 0, records_before |-> 0,
     overlaps |-> {}]

NoReturn ==
    [op |-> "none", status |-> "none", session_id |-> None, answer |-> <<>>,
     tools_used |-> <<>>, has_context |-> FALSE, error |-> None,
     logged |-> None, remaining_history |-> 0, existed |-> FALSE]

Returned(op, session_id) ==
    [NoReturn EXCEPT !.op = op, !.status = "ok", !.session_id = session_id]
Raised(op, session_id, error) ==
    [NoReturn EXCEPT !.op = op, !.status = "raised", !.session_id = session_id,
                     !.error = error]

InFlight == {"AGENT", "TOOLS", "SPEECH"}
\* The process_chat calls on session s that are suspended when t begins.
Suspended(t, s) ==
    {task[u].checkpoints_before :
        u \in {v \in Tasks \ {t} : pc[v] \in {"AGENT", "TOOLS"} /\ task[v].session_id = s}}
Free(t) == pc[t] \notin InFlight
\* A new call takes the first free task slot.
FreeSlot(t) == Free(t) /\ \A u \in Tasks : u < t => ~Free(u)
NoneInFlight == \A t \in Tasks : Free(t)

TotalCheckpoints == SumLen(checkpoints, SessionIds)
TotalRecords == SumLen(sessions, DOMAIN sessions)

\* Checkpoints a call in flight still writes at least, records it still appends.
PendingCheckpoints(t) ==
    CASE pc[t] = "AGENT" -> 1 [] pc[t] = "TOOLS" -> 2 [] OTHER -> 0
RECURSIVE SumPending(_)
SumPending(S) ==
    IF S = {} THEN 0
    ELSE LET t == CHOOSE u \in S : TRUE
         IN PendingCheckpoints(t) + SumPending(S \ {t})
StoreRoom(n) == TotalCheckpoints + SumPending(Tasks) + n <= MaxStore
RECURSIVE Updates(_)
Updates(cs) ==
    IF cs = <<>> THEN 0
    ELSE (IF Head(cs).source = "update" THEN 1 ELSE 0) + Updates(Tail(cs))
RECURSIVE SumUpdates(_)
SumUpdates(S) ==
    IF S = {} THEN 0
    ELSE LET s == CHOOSE x \in S : TRUE
         IN Updates(checkpoints[s]) + SumUpdates(S \ {s})
UpdateRoom == SumUpdates(SessionIds) + 1 <= MaxUpdates
RecordRoom ==
    TotalRecords + Cardinality({t \in Tasks : pc[t] \in InFlight}) + 1 <= MaxRecords

(* ------------------------------ requests ------------------------------ *)

\* chat_history entries, with or without the "content" key
HistEntry(role, content) == [role |-> role, has_content |-> TRUE, content |-> content]
HistEntryNoContent(role) == [role |-> role, has_content |-> FALSE, content |-> <<>>]

ChatRequests ==
    { [query |-> <<"q1">>, language |-> "en", location |-> None, crop |-> None,
       chat_history |-> <<>>],
      [query |-> <<"q2">>, language |-> "hi", location |-> "Pune", crop |-> "wheat",
       chat_history |-> <<HistEntry("system", <<"s0">>), HistEntry("user", <<"h0">>),
                          HistEntry("assistant", <<"a0">>)>>],
      [query |-> <<"q1">>, language |-> "en", location |-> None, crop |-> None,
       chat_history |-> <<HistEntryNoContent("user")>>] }

\* process_chat 438-446: the messages built from chat_history and the query
RECURSIVE HistoryMessages(_)
HistoryMessages(h) ==
    IF h = <<>> THEN <<>>
    ELSE (CASE Head(h).role = "user" -> <<HumanMessage(Head(h).content)>>
            [] Head(h).role = "assistant" -> <<AIMessage(Head(h).content)>>
            [] OTHER -> <<>>) \o HistoryMessages(Tail(h))

\* hist["content"] of an entry without the key raises KeyError
HistoryRaises(h) ==
    \E i \in 1..Len(h) : h[i].role \in {"user", "assistant"} /\ ~h[i].has_content

\* Variant of BuildMessages: the query comes before the history.
BuildMessages_QueryFirst(chat_history, query) ==
    <<HumanMessage(query)>> \o HistoryMessages(chat_history)

BuildMessages(chat_history, query) ==
    HistoryMessages(chat_history) \o <<HumanMessage(query)>>

(* --------------------------- model outputs ---------------------------- *)

ToolCall(name, args) == [name |-> name, args |-> args]
MarketCall == ToolCall("get_market_prices", <<"wheat", "Pune">>)
WeatherCall == ToolCall("get_weather_advisory", <<"Pune", None>>)

\* What the model may answer: text, nothing, or tool calls (with or without text)
ModelOutputs ==
    { [content |-> <<"a1">>, tool_calls |-> <<>>],
      [content |-> <<>>, tool_calls |-> <<>>],
      [content |-> <<>>, tool_calls |-> <<MarketCall>>],
      [content |-> <<"a1">>, tool_calls |-> <<WeatherCall, MarketCall>>] }

\* What a backend does inside the agent loop
AgentOutcomes ==
    { [kind |-> "response", status_code |-> 200, body |-> "{\"a\":1}"],
      [kind |-> "response", status_code |-> 500, body |-> "<html>"] }

\* The assistant message of a model output, with its id and tool call ids
ResponseMessage(out, id) ==
    [Message("ai", out.content, <<>>) EXCEPT
        !.id = id,
        !.tool_calls = [i \in 1..Len(out.tool_calls) |->
                          [name |-> out.tool_calls[i].name,
                           args |-> out.tool_calls[i].args,
                           id |-> <<id, i>>]]]

(* ------------------------------ process_chat -------------------------- *)

\* Variant of LastAnswer: only the final message is looked at.
LastAnswer_FinalMessage(final_messages) ==
    IF final_messages = <<>> THEN APOLOGY
    ELSE LET msg == final_messages[Len(final_messages)]
         IN IF msg.type = "ai" /\ msg.content # <<>> THEN msg.content ELSE APOLOGY

\* process_chat 457-464: the last assistant message with content, or the apology
RECURSIVE LastAnswer(_)
LastAnswer(final_messages) ==
    IF final_messages = <<>> THEN APOLOGY
    ELSE LET msg == final_messages[Len(final_messages)]
         IN IF msg.type = "ai" /\ msg.content # <<>> THEN msg.content
            ELSE LastAnswer(SubSeq(final_messages, 1, Len(final_messages) - 1))

\* process_chat 470-471: a name is appended when it is not in the list yet, so
\* the list is made of the first occurrence of every name, in order.
Distinct(names) ==
    LET first == {i \in 1..Len(names) : ~Contains(SubSeq(names, 1, i - 1), names[i])}
    IN [k \in 1..Cardinality(first) |->
           names[CHOOSE i \in first : Cardinality({j \in first : j < i}) = k - 1]]

\* process_chat 466-471: the distinct tool names of all tool calls, in order
ToolsUsed(final_messages) ==
    Distinct(Flatten([i \in 1..Len(final_messages) |->
                [j \in 1..Len(final_messages[i].tool_calls) |->
                    final_messages[i].tool_calls[j].name]]))

\* process_chat 486-492: the thread's checkpoints after the rollback attempt
RollbackOnError(thread) ==
    LET state_history == StateHistory(thread)
    IN IF Len(state_history) > 1
       THEN UpdateThread(thread, state_history[2].values)
       ELSE thread

\* What the calls inside the inner try of process_chat 486-492 may do.
RollbackAttempts == {"returns", "raises"}

\* process_chat 485-494: the rollback attempt; an exception inside it is
\* logged (rollback_error) and goes no further.
AttemptRollback(thread, attempt) ==
    IF attempt = "raises"
    THEN [checkpoints |-> thread, rollback_error |-> "InvalidUpdateError"]
    ELSE [checkpoints |-> RollbackOnError(thread), rollback_error |-> None]

\* Variant of SurfacedError: the latest exception is the one that goes up.
SurfacedError_Latest(e, rollback_error) ==
    IF rollback_error # None THEN rollback_error ELSE e

\* process_chat 496: the bare raise re-raises the exception of the outer try
SurfacedError(e, rollback_error) == e

\* process_chat 482-496: the except branch of a call on session s that failed
\* with e, thread being the checkpoints of s at that moment
ChatError(t, s, e, thread) ==
    /\ \E attempt \in RollbackAttempts :
          LET a == AttemptRollback(thread, attempt)
          IN /\ checkpoints' = [checkpoints EXCEPT ![s] = a.checkpoints]
             /\ ret' = [ret EXCEPT ![t] =
                    [Raised("process_chat", s, SurfacedError(e, a.rollback_error))
                        EXCEPT !.logged = a.rollback_error]]
    /\ pc' = [pc EXCEPT ![t] = "idle"]
    /\ task' = [task EXCEPT ![t] = NoTask]

\* process_chat up to its first suspension: the messages are built, ainvoke
\* saves the input checkpoint and the one after START, the agent node calls
\* the model.  A KeyError while building goes to the except branch.
StartChat(t, s, r) ==
    /\ FreeSlot(t)
    /\ IF HistoryRaises(r.chat_history)
       THEN /\ ChatError(t, s, "KeyError", checkpoints[s])
            /\ UNCHANGED nextId
       ELSE LET messages == WithIds(BuildMessages(r.chat_history, r.query), nextId[s])
                saved == LatestState(s)
                state == ApplyWrites(saved,
                            [messages |-> messages, language |-> r.language,
                             user_location |-> r.location, current_crop |-> r.crop])
            IN /\ checkpoints' = [checkpoints EXCEPT ![s] =
                      put(put(@, Checkpoint(saved, "input")), Checkpoint(state, "loop"))]
               /\ nextId' = [nextId EXCEPT ![s] = @ + Len(messages)]
               /\ pc' = [pc EXCEPT ![t] = "AGENT"]
               /\ task' = [task EXCEPT ![t] =
                      [op |-> "process_chat", session_id |-> s, query |-> r.query,
                       state |-> state, model_calls |-> 0,
                       checkpoints_before |-> Len(checkpoints[s]),
                       records_before |-> Len(get_session_history(s)),
                       overlaps |-> Suspended(t, s)]]
               /\ UNCHANGED ret
    /\ UNCHANGED <<sessions, spoken, toolIn, toolOut>>

\* Variant of OutOfSteps: the limit counts model calls, not steps.
OutOfSteps_CountsCalls(call) == call > RecursionLimit

\* The agent node of model call number call (1, 2, ...) is step 2*call - 1 of
\* the run: no step may follow it when 2*call is beyond the limit.
OutOfSteps(call) == 2 * call > RecursionLimit

\* Whether a run that ends exactly at the limit still returns.
AtLimit == {"returns", "raises"}

\* The model answers: the agent node appends the response (checkpoint), then
\* should_continue sends the loop to the tools node or ends it; at the end
\* process_chat picks the answer and the tools and saves the turn (455-480).
\* A run that is out of steps raises GraphRecursionError out of ainvoke.
ModelResponds(t, out) ==
    /\ pc[t] = "AGENT"
    /\ LET s == task[t].session_id
           response == ResponseMessage(out, nextId[s])
           state == ApplyWrites(task[t].state,
                       [EmptyState EXCEPT !.messages = <<response>>])
           thread == put(checkpoints[s], Checkpoint(state, "loop"))
           answer == LastAnswer(state.messages)
           tools_used == ToolsUsed(state.messages)
       IN /\ nextId' = [nextId EXCEPT ![s] = @ + 1]
          /\ \E ending \in AtLimit :
                IF /\ OutOfSteps(task[t].model_calls + 1)
                   /\ should_continue(state) = "tools" \/ ending = "raises"
                THEN /\ ChatError(t, s, "GraphRecursionError", thread)
                     /\ UNCHANGED sessions
                ELSE /\ checkpoints' = [checkpoints EXCEPT ![s] = thread]
                     /\ task' = [task EXCEPT ![t].state = state,
                                             ![t].model_calls = @ + 1]
                     /\ IF should_continue(state) = "tools"
                        THEN /\ pc' = [pc EXCEPT ![t] = "TOOLS"]
                             /\ UNCHANGED <<sessions, ret>>
                        ELSE /\ pc' = [pc EXCEPT ![t] = "DONE"]
                             /\ sessions' = save_to_session(s, task[t].query, answer)
                             /\ ret' = [ret EXCEPT ![t] =
                                    [Returned("process_chat", s) EXCEPT
                                        !.answer = answer, !.tools_used = tools_used,
                                        !.has_context = Len(tools_used) > 0]]
    /\ UNCHANGED <<spoken, toolIn, toolOut>>

\* Variant of ModelFails: the failed turn is saved with the apology.
ModelFails_Saved(t) ==
    /\ pc[t] = "AGENT"
    /\ ChatError(t, task[t].session_id, "ModelError", checkpoints[task[t].session_id])
    /\ sessions' = save_to_session(task[t].session_id, task[t].query, APOLOGY)
    /\ UNCHANGED <<nextId, spoken, toolIn, toolOut>>

\* The model call raises: process_chat 482-496 attempts the rollback, re-raises.
ModelFails(t) ==
    /\ pc[t] = "AGENT"
    /\ ChatError(t, task[t].session_id, "ModelError", checkpoints[task[t].session_id])
    /\ UNCHANGED <<sessions, nextId, spoken, toolIn, toolOut>>

\* Variant of ToolMessages: the results come back in the reverse order.
ToolMessages_Reversed(calls, outcomes) ==
    [i \in 1..Len(calls) |->
        LET c == calls[Len(calls) + 1 - i]
        IN ToolMessage(RunTool(c.name, c.args, outcomes[Len(calls) + 1 - i]).value,
                       c.name, c.id)]

\* The tools node: every requested call is run, one tool message per call in
\* the order of the calls (checkpoint), and the loop goes back to the agent.
ToolMessages(calls, outcomes) ==
    [i \in 1..Len(calls) |->
        ToolMessage(RunTool(calls[i].name, calls[i].args, outcomes[i]).value,
                    calls[i].name, calls[i].id)]

ToolsReturn(t, outcomes) ==
    /\ pc[t] = "TOOLS"
    /\ LET s == task[t].session_id
           last_message == task[t].state.messages[Len(task[t].state.messages)]
           calls == last_message.tool_calls
       IN /\ DOMAIN outcomes = 1..Len(calls)
          /\ LET results == WithIds(ToolMessages(calls, outcomes), nextId[s])
                 state == ApplyWrites(task[t].state,
                             [EmptyState EXCEPT !.messages = results])
             IN /\ checkpoints' = [checkpoints EXCEPT ![s] = put(@, Checkpoint(state, "loop"))]
                /\ nextId' = [nextId EXCEPT ![s] = @ + Len(results)]
                /\ task' = [task EXCEPT ![t].state = state]
    /\ pc' = [pc EXCEPT ![t] = "AGENT"]
    /\ UNCHANGED <<sessions, ret, spoken, toolIn, toolOut>>

(* --------------------------- process_speech_chat ---------------------- *)

\* Variant of SpeechMessages: the messages of the thread come before the query.
SpeechMessages_WithThread(s, q) ==
    <<SystemMessage(SPEECH_SYSTEM_PROMPT)>> \o LatestState(s).messages
        \o <<HumanMessage(q)>>

\* process_speech_chat 516-519: the message list of the one model call
SpeechMessages(s, q) == <<SystemMessage(SPEECH_SYSTEM_PROMPT), HumanMessage(q)>>

\* process_speech_chat 513-521: the two messages, then the direct model call
StartSpeech(t, s, q) ==
    /\ FreeSlot(t)
    /\ pc' = [pc EXCEPT ![t] = "SPEECH"]
    /\ task' = [task EXCEPT ![t] =
           [op |-> "process_speech_chat", session_id |-> s, query |-> q,
            state |-> [EmptyState EXCEPT !.messages = SpeechMessages(s, q)],
            model_calls |-> 0,
            checkpoints_before |-> Len(checkpoints[s]),
            records_before |-> Len(get_session_history(s)),
            overlaps |-> Suspended(t, s)]]
    /\ UNCHANGED <<sessions, checkpoints, nextId, ret, spoken, toolIn, toolOut>>

\* Variant of SpeechAnswer: the model's text is returned as it is.
SpeechAnswer_NoFallback(content) == content

\* process_speech_chat 522: the model's text, or the fallback when it is empty
SpeechAnswer(content) == IF content # <<>> THEN content ELSE SPEECH_FALLBACK

\* process_speech_chat 521-531: the answer is saved and returned
SpeechResponds(t, content) ==
    /\ pc[t] = "SPEECH"
    /\ LET s == task[t].session_id
           answer == SpeechAnswer(content)
       IN /\ sessions' = save_to_session(s, task[t].query, answer)
          /\ ret' = [ret EXCEPT ![t] =
                 [Returned("process_speech_chat", s) EXCEPT
                     !.answer = answer, !.has_context = FALSE, !.tools_used = <<>>]]
    /\ spoken' = spoken \cup {task[t].session_id}
    /\ pc' = [pc EXCEPT ![t] = "idle"]
    /\ task' = [task EXCEPT ![t].model_calls = 1]
    /\ UNCHANGED <<checkpoints, nextId, toolIn, toolOut>>

\* process_speech_chat 533-535: the model call raises, the error is re-raised
SpeechFails(t) ==
    /\ pc[t] = "SPEECH"
    /\ ret' = [ret EXCEPT ![t] =
           Raised("process_speech_chat", task[t].session_id, "ModelError")]
    /\ pc' = [pc EXCEPT ![t] = "idle"]
    /\ task' = [task EXCEPT ![t] = NoTask]
    /\ UNCHANGED <<sessions, checkpoints, nextId, spoken, toolIn, toolOut>>

(* --------------------------- rollback_conversation -------------------- *)

\* rollback_conversation 553: the call is refused
RollbackRefused(s, steps) == Len(get_state_history(s)) <= steps

\* Variant of RollbackRecords: the slice is taken without the length test.
RollbackRecords_Clamped(s, steps) ==
    IF s \in DOMAIN sessions
    THEN [sessions EXCEPT ![s] = SliceDropLast(sessions[s], steps)]
    ELSE sessions

\* rollback_conversation 559-560: the turn records kept
RollbackRecords(s, steps) ==
    IF s \in DOMAIN sessions /\ Len(sessions[s]) >= steps
    THEN [sessions EXCEPT ![s] = SliceDropLast(sessions[s], steps)]
    ELSE sessions

\* Variant of rollback_conversation: too many steps go back to the oldest
\* checkpoint instead of being refused.
rollback_conversation_Clamps(s, steps) ==
    LET state_history == get_state_history(s)
        n == IF steps < Len(state_history) THEN steps ELSE Len(state_history) - 1
        kept == RollbackRecords_Clamped(s, steps)
    IN IF state_history = <<>>
       THEN [raised |-> TRUE, checkpoints |-> checkpoints, sessions |-> sessions,
             remaining_history |-> 0]
       ELSE [raised |-> FALSE,
             checkpoints |-> [checkpoints EXCEPT ![s] =
                                 update_state(s, state_history[n + 1].values)],
             sessions |-> kept,
             remaining_history |-> IF s \in DOMAIN kept THEN Len(kept[s]) ELSE 0]

\* rollback_conversation 549-567: what the call does to the store and returns
rollback_conversation(s, steps) ==
    IF RollbackRefused(s, steps)
    THEN [raised |-> TRUE, checkpoints |-> checkpoints, sessions |-> sessions,
          remaining_history |-> 0]
    ELSE LET state_history == get_state_history(s)
             target_state == state_history[steps + 1]
             kept == RollbackRecords(s, steps)
         IN [raised |-> FALSE,
             checkpoints |-> [checkpoints EXCEPT ![s] = update_state(s, target_state.values)],
             sessions |-> kept,
             remaining_history |-> IF s \in DOMAIN kept THEN Len(kept[s]) ELSE 0]

\* A rollback_conversation call; it has no suspension point.
Rollback(t, s, steps) ==
    /\ FreeSlot(t)
    /\ LET out == rollback_conversation(s, steps)
       IN /\ checkpoints' = out.checkpoints
          /\ sessions' = out.sessions
          /\ ret' = [ret EXCEPT ![t] =
                 IF out.raised
                 THEN Raised("rollback_conversation", s, "ValueError")
                 ELSE [Returned("rollback_conversation", s) EXCEPT
                          !.remaining_history = out.remaining_history]]
    /\ pc' = [pc EXCEPT ![t] = "idle"]
    /\ task' = [task EXCEPT ![t] = NoTask]
    /\ UNCHANGED <<nextId, spoken, toolIn, toolOut>>

(* --------------------------- clear_session_history -------------------- *)

\* Variant of ClearSession: the whole store is emptied.
ClearSession_All(t, s) ==
    /\ FreeSlot(t)
    /\ sessions' = <<>>
    /\ ret' = [ret EXCEPT ![t] =
           [Returned("clear_session_history", s) EXCEPT !.existed = s \in DOMAIN sessions]]
    /\ pc' = [pc EXCEPT ![t] = "idle"]
    /\ task' = [task EXCEPT ![t] = NoTask]
    /\ UNCHANGED <<checkpoints, nextId, spoken, toolIn, toolOut>>

\* clear_session_history 400-405
ClearSession(t, s) ==
    /\ FreeSlot(t)
    /\ IF s \in DOMAIN sessions
       THEN /\ sessions' = [x \in DOMAIN sessions \ {s} |-> sessions[x]]
            /\ ret' = [ret EXCEPT ![t] =
                   [Returned("clear_session_history", s) EXCEPT !.existed = TRUE]]
       ELSE /\ ret' = [ret EXCEPT ![t] =
                   [Returned("clear_session_history", s) EXCEPT !.existed = FALSE]]
            /\ UNCHANGED sessions
    /\ pc' = [pc EXCEPT ![t] = "idle"]
    /\ task' = [task EXCEPT ![t] = NoTask]
    /\ UNCHANGED <<checkpoints, nextId, spoken, toolIn, toolOut>>

(* ------------------------------ the system ---------------------------- *)

NoToolIn == [name |-> None, args |-> <<>>, outcome |-> [kind |-> "none", status_code |-> 0, body |-> ""]]
NoToolOut == [raised |-> FALSE, requests |-> <<>>, value |-> <<>>, done |-> FALSE]

Init ==
    /\ sessions = <<>>
    /\ checkpoints = [s \in SessionIds |-> <<>>]
    /\ nextId = [s \in SessionIds |-> 1]
    /\ pc = [t \in Tasks |-> "idle"]
    /\ task = [t \in Tasks |-> NoTask]
    /\ ret = [t \in Tasks |-> NoReturn]
    /\ spoken = {}
    /\ toolIn = NoToolIn
    /\ toolOut = NoToolOut

Steps == 0..MaxSteps
\* The session ids the callers of Spec use.
Served == {"s1"}
SpeechOutputs == {<<"a1">>, <<>>}

ToolOutcomes == UNION {[1..n -> AgentOutcomes] : n \in 1..2}

\* What the model answers in Spec: text, nothing, or text and two tool calls.
SpecOutputs == {out \in ModelOutputs : Len(out.tool_calls) # 1}

\* Callers that wait for a call to finish before they make the next one; a
\* call is made, and the model asks for tools, while the stores have room.
Next ==
    \/ \E t \in Tasks, s \in Served, r \in ChatRequests :
          NoneInFlight /\ StoreRoom(3) /\ RecordRoom /\ StartChat(t, s, r)
    \/ \E t \in Tasks, out \in SpecOutputs :
          (out.tool_calls # <<>> => StoreRoom(2)) /\ ModelResponds(t, out)
    \/ \E t \in Tasks : ModelFails(t)
    \/ \E t \in Tasks, outcomes \in ToolOutcomes :
          ToolsReturn(t, outcomes)
    \/ \E t \in Tasks, s \in Served, q \in SpeechQueries :
          NoneInFlight /\ RecordRoom /\ StartSpeech(t, s, q)
    \/ \E t \in Tasks, content \in SpeechOutputs : SpeechResponds(t, content)
    \/ \E t \in Tasks : SpeechFails(t)
    \/ \E t \in Tasks, s \in Served, steps \in Steps :
          /\ NoneInFlight
          /\ RollbackRefused(s, steps) \/ (StoreRoom(1) /\ UpdateRoom)
          /\ Rollback(t, s, steps)
    \/ \E t \in Tasks, s \in Served : NoneInFlight /\ ClearSession(t, s)

Spec == Init /\ [][Next]_vars

(* ----------------------- one turn, to its end ------------------------- *)

\* The requests that get as far as the loop, and a model that answers or asks
\* for one tool.
LoopRequests == {r \in ChatRequests : ~HistoryRaises(r.chat_history)}
LoopOutputs == {out \in ModelOutputs : Len(out.content) + Len(out.tool_calls) = 1}

\* The runs a thread has seen: each saves one input checkpoint.
LoopTurns(s) ==
    Cardinality({i \in 1..Len(checkpoints[s]) : checkpoints[s][i].source = "input"})

\* One process_chat call on a new session, with as many tool rounds as the
\* model asks for, and one more call when the first ran out of steps.  The
\* backends may fail in the first two tool rounds of the first call.
LoopNext ==
    \/ \E t \in Tasks, s \in Served, r \in LoopRequests :
          /\ NoneInFlight
          /\ \/ LoopTurns(s) = 0
             \/ LoopTurns(s) = 1 /\ ret[t].error = "GraphRecursionError"
          /\ StartChat(t, s, r)
    \/ \E t \in Tasks, out \in LoopOutputs : ModelResponds(t, out)
    \/ \E t \in Tasks : ModelFails(t)
    \/ \E t \in Tasks, outcomes \in ToolOutcomes :
          /\ pc[t] = "TOOLS"
          /\ \/ \A i \in DOMAIN outcomes : outcomes[i].status_code = 200
             \/ task[t].model_calls <= 2 /\ LoopTurns(task[t].session_id) = 1
          /\ ToolsReturn(t, outcomes)

LoopSpec == Init /\ [][LoopNext]_vars

(* ------------------------- overlapping calls -------------------------- *)

\* A model that answers with text or asks for one tool.
ConcOutputs == {out \in ModelOutputs : out.content = <<>> <=> out.tool_calls # <<>>}

\* Callers that do not wait: process_chat and process_speech_chat calls on one
\* session begin while other calls are suspended at their model or tool call;
\* two process_chat calls are made, and speech calls while there is room.
\* No rollback_conversation and no clear_session_history call is made.
ConcNext ==
    \/ \E t \in Tasks, s \in Served, r \in LoopRequests :
          LoopTurns(s) <= 1 /\ StoreRoom(3) /\ RecordRoom /\ StartChat(t, s, r)
    \/ \E t \in Tasks, out \in ConcOutputs :
          (out.tool_calls # <<>> => StoreRoom(2)) /\ ModelResponds(t, out)
    \/ \E t \in Tasks : ModelFails(t)
    \/ \E t \in Tasks, outcomes \in ToolOutcomes :
          /\ \A i \in DOMAIN outcomes : outcomes[i].status_code = 200
          /\ ToolsReturn(t, outcomes)
    \/ \E t \in Tasks, s \in Served, q \in SpeechQueries :
          RecordRoom /\ StartSpeech(t, s, q)
    \/ \E t \in Tasks, content \in SpeechOutputs : SpeechResponds(t, content)
    \/ \E t \in Tasks : SpeechFails(t)

ConcSpec == Init /\ [][ConcNext]_vars

(* ---------------------------- two sessions --------------------------- *)

\* Requests with and without a chat_history that raises, and a model that
\* answers with text or asks for one tool.
IsoRequests == {r \in ChatRequests : r.query = <<"q1">>}
IsoSteps == {0, 1}

\* Callers of every operation on both session ids, one call at a time; one
\* process_chat call per session gets as far as the loop.
IsoNext ==
    \/ \E t \in Tasks, s \in SessionIds, r \in IsoRequests :
          /\ NoneInFlight /\ LoopTurns(s) = 0
          /\ StoreRoom(3) /\ RecordRoom /\ StartChat(t, s, r)
    \/ \E t \in Tasks, out \in ConcOutputs :
          (out.tool_calls # <<>> => StoreRoom(2)) /\ ModelResponds(t, out)
    \/ \E t \in Tasks : ModelFails(t)
    \/ \E t \in Tasks, outcomes \in ToolOutcomes :
          /\ \A i \in DOMAIN outcomes : outcomes[i].status_code = 200
          /\ ToolsReturn(t, outcomes)
    \/ \E t \in Tasks, s \in SessionIds, q \in SpeechQueries :
          NoneInFlight /\ RecordRoom /\ StartSpeech(t, s, q)
    \/ \E t \in Tasks, content \in SpeechOutputs : SpeechResponds(t, content)
    \/ \E t \in Tasks : SpeechFails(t)
    \/ \E t \in Tasks, s \in SessionIds, steps \in IsoSteps :
          /\ NoneInFlight
          /\ RollbackRefused(s, steps) \/ (StoreRoom(1) /\ UpdateRoom)
          /\ Rollback(t, s, steps)
    \/ \E t \in Tasks, s \in SessionIds : NoneInFlight /\ ClearSession(t, s)

IsoSpec == Init /\ [][IsoNext]_vars

(* --------------------------- the tools alone -------------------------- *)

Locations == {"Pune", "Delhi"}
Crops == {None, "", "wheat"}
Pests == {"aphid", "rust"}
Commodities == {"wheat", "tomato"}

\* The invocations tried: a tool, its arguments, what its backend does.
ToolInputs ==
    [name : {"get_weather_advisory"}, args : Locations \X Crops, outcome : HttpOutcomes]
    \cup [name : {"get_pest_information"}, args : Pests \X Crops, outcome : HttpOutcomes]
    \cup [name : {"get_market_prices"}, args : Commodities \X Locations, outcome : HttpOutcomes]

ToolInit ==
    /\ sessions = <<>>
    /\ checkpoints = [s \in SessionIds |-> <<>>]
    /\ nextId = [s \in SessionIds |-> 1]
    /\ pc = [t \in Tasks |-> "idle"]
    /\ task = [t \in Tasks |-> NoTask]
    /\ ret = [t \in Tasks |-> NoReturn]
    /\ spoken = {}
    /\ toolIn \in ToolInputs
    /\ toolOut = NoToolOut

\* The tool runs on its input.
InvokeTool ==
    /\ ~toolOut.done
    /\ LET r == RunTool(toolIn.name, toolIn.args, toolIn.outcome)
       IN toolOut' = [raised |-> r.raised, requests |-> r.requests,
                      value |-> r.value, done |-> TRUE]
    /\ UNCHANGED <<sessions, checkpoints, nextId, pc, task, ret, spoken, toolIn>>

\* The next invocation is made.
NextInvocation(in) ==
    /\ toolOut.done
    /\ toolIn' = in
    /\ toolOut' = NoToolOut
    /\ UNCHANGED <<sessions, checkpoints, nextId, pc, task, ret, spoken>>

ToolNext ==
    \/ InvokeTool
    \/ \E in \in ToolInputs : NextInvocation(in)

ToolSpec == ToolInit /\ [][ToolNext]_vars

(* ============================== claims ================================ *)

\* C1 (as stated): in every reachable state, no session has more turn records
\* than checkpoints.
C1_Original ==
    \A s \in SessionIds : Len(get_session_history(s)) <= Len(checkpoints[s])

\* C1 (amended): a session that process_speech_chat has never saved a turn to
\* never has more turn records than checkpoints, whatever process_chat,
\* rollback_conversation and clear_session_history calls were made.
C1_Amended ==
    \A s \in SessionIds :
        s \notin spoken => Len(get_session_history(s)) <= Len(checkpoints[s])

\* A session without speech turns that holds a turn record after a rollback
\* wrote its checkpoint.
C1_Witness ==
    \E s \in SessionIds :
        /\ s \notin spoken
        /\ Len(get_session_history(s)) >= 1
        /\ \E i \in 1..Len(checkpoints[s]) : checkpoints[s][i].source = "update"

\* C2 (as stated): a successful rollback of k >= 1 steps lowers the turn-record
\* count and the checkpoint count of the session by exactly k.
C2_Original ==
    [][\A t \in Tasks, s \in SessionIds, k \in 1..MaxSteps :
          (/\ ret'[t].op = "rollback_conversation"
           /\ ret'[t].session_id = s
           /\ ~RollbackRefused(s, k)
           /\ Rollback(t, s, k)) =>
              /\ Len(get_session_history(s))' = Len(get_session_history(s)) - k
              /\ Len(checkpoints'[s]) = Len(checkpoints[s]) - k]_vars

\* C2 (amended): a successful rollback of k >= 1 steps raises the checkpoint
\* count of the session by exactly one (the restored state is saved as a new
\* checkpoint, none is removed), and lowers the turn-record count by exactly k
\* when the session holds at least k turn records and leaves it unchanged
\* otherwise.
C2_Amended ==
    [][\A t \in Tasks, s \in SessionIds, k \in 1..MaxSteps :
          (/\ ret'[t].op = "rollback_conversation"
           /\ ret'[t].session_id = s
           /\ ~RollbackRefused(s, k)
           /\ Rollback(t, s, k)) =>
              /\ Len(checkpoints'[s]) = Len(checkpoints[s]) + 1
              /\ Len(get_session_history(s))' =
                    IF Len(get_session_history(s)) >= k
                    THEN Len(get_session_history(s)) - k
                    ELSE Len(get_session_history(s))]_vars

\* A rollback has succeeded and left a turn record: its steps were >= 1.
C2_Witness ==
    \E t \in Tasks :
        /\ ret[t].op = "rollback_conversation"
        /\ ret[t].status = "ok"
        /\ ret[t].remaining_history >= 1

\* C3: rollback_conversation with steps >= the checkpoint count of the session
\* raises the insufficient-history error and changes neither the turn records
\* nor the checkpoints (so neither the active state).
C3_RefusedUnchanged ==
    [][\A t \in Tasks, s \in SessionIds, k \in Steps :
          (/\ k >= Len(checkpoints[s])
           /\ ret'[t].op = "rollback_conversation"
           /\ Rollback(t, s, k)) =>
              /\ ret'[t] = Raised("rollback_conversation", s, "ValueError")
              /\ UNCHANGED <<sessions, checkpoints>>]_vars

\* A rollback was refused on a session that has checkpoints and turn records.
C3_Witness ==
    \E t \in Tasks :
        /\ ret[t].op = "rollback_conversation"
        /\ ret[t].status = "raised"
        /\ checkpoints[ret[t].session_id] # <<>>
        /\ get_session_history(ret[t].session_id) # <<>>

\* C4 (as stated): rollback_conversation with steps greater than the number of
\* turn records of the session raises and changes neither the turn records nor
\* the active state.
C4_Claim ==
    [][\A t \in Tasks, s \in SessionIds, k \in Steps :
          (Rollback(t, s, k) /\ k > Len(get_session_history(s))) =>
              /\ ret'[t].status = "raised"
              /\ UNCHANGED sessions
              /\ LatestState(s)' = LatestState(s)]_vars

\* The index of the last message of kind type in msgs, 0 when there is none.
LastOfType(msgs, type) ==
    IF \E i \in 1..Len(msgs) : msgs[i].type = type
    THEN CHOOSE i \in 1..Len(msgs) :
            msgs[i].type = type /\ \A j \in (i + 1)..Len(msgs) : msgs[j].type # type
    ELSE 0

C6_Transitions ==
    [][\A t \in Tasks :
          /\ \A s \in SessionIds, r \in ChatRequests :
                StartChat(t, s, r) /\ ~HistoryRaises(r.chat_history) =>
                    pc'[t] = "AGENT" /\ task'[t].model_calls = 0
          /\ \A out \in ModelOutputs :
                ModelResponds(t, out) =>
                    /\ pc[t] = "AGENT"
                    /\ pc'[t] = IF out.tool_calls # <<>> THEN "TOOLS" ELSE "DONE"
                    /\ (task[t].model_calls = 0 /\ out.tool_calls = <<>>) =>
                          /\ task'[t].model_calls = 1
                          /\ \A i \in 1..Len(task'[t].state.messages) :
                                task'[t].state.messages[i].type = "tool" =>
                                    i <= Len(task[t].state.messages) - 1
          /\ (pc[t] = "AGENT" /\ pc'[t] \notin {"AGENT", "TOOLS", "DONE"}) => ModelFails(t)
          /\ (pc[t] = "TOOLS" /\ pc'[t] # "TOOLS") =>
                pc'[t] = "AGENT" /\ \E outcomes \in ToolOutcomes : ToolsReturn(t, outcomes)
          /\ pc[t] = "DONE" =>
                /\ \A out \in ModelOutputs : ~ModelResponds(t, out)
                /\ \A outcomes \in ToolOutcomes : ~ToolsReturn(t, outcomes)
                /\ ~ModelFails(t)
                /\ pc'[t] \in {"AGENT", "TOOLS"} =>
                      \E s \in SessionIds, r \in ChatRequests : StartChat(t, s, r)]_vars

\* C6 (amended): the loop starts in AGENT; a model response takes AGENT to
\* TOOLS when it has tool calls and to DONE when it has none, as long as the
\* run has steps left (model calls 1 to 12 of the turn); the response to model
\* call 13 makes the turn fail with the recursion error when it has tool calls
\* (and never takes it to TOOLS); no turn makes a 14th model call; the only
\* other way out of AGENT is a model call that raises; the tools node always
\* takes TOOLS back to AGENT; DONE takes no further step; a turn whose first
\* response has no tool call has made exactly one model call when it is DONE
\* and has not been in TOOLS.
C6_Amended ==
    [][\A t \in Tasks :
          /\ \A s \in SessionIds, r \in ChatRequests :
                StartChat(t, s, r) /\ ~HistoryRaises(r.chat_history) =>
                    pc'[t] = "AGENT" /\ task'[t].model_calls = 0
          /\ \A out \in ModelOutputs :
                ModelResponds(t, out) =>
                    /\ pc[t] = "AGENT"
                    /\ task[t].model_calls + 1 <= 13
                    /\ task[t].model_calls + 1 <= 12 =>
                          pc'[t] = IF out.tool_calls # <<>> THEN "TOOLS" ELSE "DONE"
                    /\ (task[t].model_calls + 1 = 13 /\ out.tool_calls # <<>>) =>
                          /\ pc'[t] = "idle"
                          /\ ret'[t].status = "raised"
                          /\ ret'[t].error = "GraphRecursionError"
                    /\ pc'[t] = "TOOLS" => out.tool_calls # <<>>
                    /\ pc'[t] = "DONE" => out.tool_calls = <<>>
                    /\ (task[t].model_calls = 0 /\ out.tool_calls = <<>>) =>
                          /\ pc'[t] = "DONE"
                          /\ task'[t].model_calls = 1
                          /\ \A i \in 1..Len(task'[t].state.messages) :
                                task'[t].state.messages[i].type = "tool" =>
                                    i <= Len(task[t].state.messages) - 1
          /\ (pc[t] = "AGENT" /\ pc'[t] \notin {"AGENT", "TOOLS", "DONE"}) =>
                \/ ModelFails(t)
                \/ /\ task[t].model_calls + 1 = 13
                   /\ \E out \in ModelOutputs : ModelResponds(t, out)
          /\ (pc[t] = "TOOLS" /\ pc'[t] # "TOOLS") =>
                pc'[t] = "AGENT" /\ \E outcomes \in ToolOutcomes : ToolsReturn(t, outcomes)
          /\ pc[t] = "DONE" =>
                /\ \A out \in ModelOutputs : ~ModelResponds(t, out)
                /\ \A outcomes \in ToolOutcomes : ~ToolsReturn(t, outcomes)
                /\ ~ModelFails(t)
                /\ pc'[t] \in {"AGENT", "TOOLS"} =>
                      \E s \in SessionIds, r \in ChatRequests : StartChat(t, s, r)]_vars

\* A turn is DONE after one model call, and a turn is DONE after tools ran.
C6_Witness ==
    \E t \in Tasks :
        /\ pc[t] = "DONE" /\ task[t].model_calls = 1
        /\ \A i \in 1..Len(task[t].state.messages) :
              task[t].state.messages[i].type # "tool"

\* C7 (as stated): a process_chat turn whose model responses request no tool
\* returns tools_used empty and has_context false, whatever earlier turns did.
C7_Claim ==
    [][\A t \in Tasks, out \in ModelOutputs :
          (ModelResponds(t, out) /\ task[t].model_calls = 0 /\ out.tool_calls = <<>>) =>
              ret'[t].tools_used = <<>> /\ ~ret'[t].has_context]_vars

\* C8: the tools node appends to the message list exactly one tool message per
\* requested call, in the order of the calls and carrying each call's id and
\* name, and the next model call is made on the list that ends with them.
C8_ToolResults ==
    [][\A t \in Tasks, outcomes \in ToolOutcomes :
          ToolsReturn(t, outcomes) =>
              LET old == task[t].state.messages
                  new == task'[t].state.messages
                  calls == old[Len(old)].tool_calls
                  n == Len(calls)
                  list == ModelMessages(task'[t].state)
              IN /\ n >= 1
                 /\ Len(new) = Len(old) + n
                 /\ SubSeq(new, 1, Len(old)) = old
                 /\ \A i \in 1..n :
                       /\ new[Len(old) + i].type = "tool"
                       /\ new[Len(old) + i].tool_call_id = calls[i].id
                       /\ new[Len(old) + i].name = calls[i].name
                       /\ new[Len(old) + i].content =
                             RunTool(calls[i].name, calls[i].args, outcomes[i]).value
                 /\ pc'[t] = "AGENT"
                 /\ SubSeq(list, Len(list) - n + 1, Len(list)) =
                       SubSeq(new, Len(old) + 1, Len(new))]_vars

\* The model is called again after two requested tools ran: weather, then market.
C8_Witness ==
    \E t \in Tasks :
        /\ pc[t] = "AGENT" /\ task[t].model_calls > 0
        /\ LET m == task[t].state.messages
           IN /\ Len(m) >= 3
              /\ m[Len(m) - 2].tool_calls # <<>>
              /\ m[Len(m) - 1].type = "tool" /\ m[Len(m) - 1].name = "get_weather_advisory"
              /\ m[Len(m)].type = "tool" /\ m[Len(m)].name = "get_market_prices"

\* C9: a process_speech_chat call that returns gives a non-empty answer (the
\* model's text, or the fixed fallback when the text is empty), tools_used
\* empty and has_context false.
C9_SpeechResult ==
    [][\A t \in Tasks, content \in SpeechOutputs :
          SpeechResponds(t, content) =>
              /\ ret'[t].status = "ok"
              /\ ret'[t].answer # <<>>
              /\ ret'[t].answer = IF content = <<>> THEN SPEECH_FALLBACK ELSE content
              /\ ret'[t].tools_used = <<>>
              /\ ret'[t].has_context = FALSE]_vars

\* A speech call has returned the fallback answer.
C9_Witness ==
    \E t \in Tasks :
        /\ ret[t].op = "process_speech_chat" /\ ret[t].status = "ok"
        /\ ret[t].answer = SPEECH_FALLBACK

UnavailableTexts ==
    {"Weather service temporarily unavailable. Error: ",
     "Pest information service temporarily unavailable. Error: ",
     "Market price service temporarily unavailable. Error: "}

\* C10 (as stated): an HTTP tool makes at most one request, never raises, and
\* returns the serialized JSON body on status 200, a string that begins with
\* "Could not fetch" on another status, an error string on a transport
\* exception.
C10_Original ==
    toolOut.done =>
        /\ ~toolOut.raised
        /\ Len(toolOut.requests) <= 1
        /\ (toolIn.outcome.kind = "response" /\ toolIn.outcome.status_code = 200) =>
              /\ ~ResponseJson(toolIn.outcome.body).raises
              /\ toolOut.value = <<JsonDumps(ResponseJson(toolIn.outcome.body).data)>>
        /\ (toolIn.outcome.kind = "response" /\ toolIn.outcome.status_code # 200) =>
              toolOut.value[1] = "Could not fetch"
        /\ toolIn.outcome.kind = "exception" =>
              toolOut.value[1] \in UnavailableTexts

\* C10 (amended): an HTTP tool makes at most one request, never raises, and
\* returns the serialized JSON body on status 200 when the body parses as JSON,
\* a string that begins with "Could not fetch" on another status, and an error
\* string on a transport exception or on a 200 body that does not parse.
C10_Amended ==
    toolOut.done =>
        /\ ~toolOut.raised
        /\ Len(toolOut.requests) <= 1
        /\ (toolIn.outcome.kind = "response" /\ toolIn.outcome.status_code = 200) =>
              IF ResponseJson(toolIn.outcome.body).raises
              THEN toolOut.value[1] \in UnavailableTexts
              ELSE toolOut.value = <<JsonDumps(ResponseJson(toolIn.outcome.body).data)>>
        /\ (toolIn.outcome.kind = "response" /\ toolIn.outcome.status_code # 200) =>
              toolOut.value[1] = "Could not fetch"
        /\ toolIn.outcome.kind = "exception" =>
              toolOut.value[1] \in UnavailableTexts

\* get_market_prices has answered a 500 of its backend.
C10_Witness ==
    /\ toolOut.done
    /\ toolIn.name = "get_market_prices"
    /\ toolIn.outcome.kind = "response" /\ toolIn.outcome.status_code = 500
    /\ toolOut.value[1] = "Could not fetch"
    /\ Len(toolOut.requests) = 1

\* C18 (as stated): the loop has no iteration bound: every model response with
\* tool calls takes the turn to TOOLS, without ending it or failing it, the
\* tools node takes it back to AGENT, and a response takes the turn to DONE
\* exactly when it has no tool call.
C18_Original ==
    [][\A t \in Tasks :
          /\ \A out \in ModelOutputs :
                ModelResponds(t, out) =>
                    /\ out.tool_calls # <<>> => (pc'[t] = "TOOLS" /\ ret'[t] = ret[t])
                    /\ pc'[t] = "DONE" <=> out.tool_calls = <<>>
          /\ \A outcomes \in ToolOutcomes :
                ToolsReturn(t, outcomes) => pc'[t] = "AGENT"]_vars

\* C18 (amended): the source sets no iteration bound, but the run is made under
\* the library's default recursion limit of 25 steps: a turn makes at most 13
\* model calls; a response takes the turn to DONE only when it has no tool
\* call, and does so whenever it is the response to one of the first 12 model
\* calls; a response with tool calls to one of the first 12 model calls takes
\* the turn to TOOLS without ending or failing it, and the tools node takes it
\* back to AGENT; when the 13th response still has tool calls the turn fails
\* with the recursion error and has saved no turn record.
C18_Amended ==
    [][\A t \in Tasks :
          /\ \A out \in ModelOutputs :
                ModelResponds(t, out) =>
                    LET call == task[t].model_calls + 1
                    IN /\ 2 * call - 1 <= RecursionLimit
                       /\ pc'[t] = "DONE" => out.tool_calls = <<>>
                       /\ (2 * call < RecursionLimit /\ out.tool_calls = <<>>) =>
                             pc'[t] = "DONE"
                       /\ (2 * call < RecursionLimit /\ out.tool_calls # <<>>) =>
                             pc'[t] = "TOOLS" /\ ret'[t] = ret[t]
                       /\ (2 * call > RecursionLimit /\ out.tool_calls # <<>>) =>
                             /\ pc'[t] = "idle"
                             /\ ret'[t].status = "raised"
                             /\ ret'[t].error = "GraphRecursionError"
                             /\ UNCHANGED sessions
          /\ \A outcomes \in ToolOutcomes :
                ToolsReturn(t, outcomes) => pc'[t] = "AGENT"]_vars

\* A turn whose thirteen responses all asked for a tool has failed.
C18_Witness ==
    \E t \in Tasks :
        /\ ret[t].op = "process_chat" /\ ret[t].status = "raised"
        /\ ret[t].error = "GraphRecursionError"
        /\ LET thread == checkpoints[ret[t].session_id]
           IN \E i \in 1..Len(thread) :
                 LET m == thread[i].values.messages
                 IN Cardinality({j \in 1..Len(m) : m[j].tool_calls # <<>>}) = 13

\* C11: a process_chat call whose model call raises makes one rollback attempt
\* on its session (the restored state of the checkpoint one back is saved as
\* one new checkpoint when the session has more than one checkpoint and the
\* attempt does not raise; otherwise the checkpoints stay as they are), leaves
\* the turn records alone and raises the model's error to the caller; an error
\* of the attempt is logged and is never the error raised.
C11_ErrorPath ==
    [][\A t \in Tasks :
          /\ ModelFails(t) =>
                LET s == task[t].session_id
                    thread == checkpoints[s]
                    n == Len(thread)
                    rolled == IF n > 1
                              THEN Append(thread,
                                      Checkpoint(ApplyWrites(thread[n].values,
                                                             thread[n - 1].values),
                                                 "update"))
                              ELSE thread
                IN /\ ret'[t].op = "process_chat" /\ ret'[t].session_id = s
                   /\ ret'[t].status = "raised"
                   /\ ret'[t].error = "ModelError"
                   /\ checkpoints'[s] = IF ret'[t].logged = None THEN rolled ELSE thread
                   /\ UNCHANGED sessions
          /\ (ret'[t] # ret[t] /\ ret'[t].op = "process_chat"
                 /\ ret'[t].status = "raised") =>
                ret'[t].error \in {"ModelError", "KeyError", "GraphRecursionError"}]_vars

\* A model error was raised to the caller although the rollback attempt failed.
C11_Witness ==
    \E t \in Tasks :
        /\ ret[t].op = "process_chat" /\ ret[t].status = "raised"
        /\ ret[t].error = "ModelError"
        /\ ret[t].logged = "InvalidUpdateError"
        /\ Len(checkpoints[ret[t].session_id]) > 1

\* C12 (as stated): after a successful rollback_conversation(s, k) the active
\* state of s (messages, language, location, crop) is the state of the
\* checkpoint k positions back from the one that was current.
C12_Claim ==
    [][\A t \in Tasks, s \in SessionIds, k \in 1..MaxSteps :
          (Rollback(t, s, k) /\ ~RollbackRefused(s, k)) =>
              LatestState(s)' = checkpoints[s][Len(checkpoints[s]) - k].values]_vars

\* C13: the message list given to the model by the agent node begins with a
\* system message: the stored list when that begins with one, and else the
\* agent system prompt followed by the stored list; no checkpoint holds a
\* system message or the text of the prompt, and no turn record holds the
\* text of the prompt.
C13_SystemFirst ==
    /\ \A t \in Tasks :
          pc[t] = "AGENT" =>
              LET stored == task[t].state.messages
                  list == ModelMessages(task[t].state)
              IN /\ list # <<>> /\ list[1].type = "system"
                 /\ IF stored # <<>> /\ stored[1].type = "system"
                    THEN list = stored
                    ELSE /\ list[1].content = AGENT_SYSTEM_PROMPT
                         /\ Len(list) = Len(stored) + 1
                         /\ \A i \in 1..Len(stored) : list[i + 1] = stored[i]
    /\ \A s \in SessionIds :
          \A i \in 1..Len(checkpoints[s]) :
              \A j \in 1..Len(checkpoints[s][i].values.messages) :
                  /\ checkpoints[s][i].values.messages[j].type # "system"
                  /\ checkpoints[s][i].values.messages[j].content # AGENT_SYSTEM_PROMPT
    /\ \A s \in DOMAIN sessions :
          \A i \in 1..Len(sessions[s]) :
              /\ sessions[s][i].query # AGENT_SYSTEM_PROMPT
              /\ sessions[s][i].response # AGENT_SYSTEM_PROMPT

\* The model is called for the second time in the second turn of a session.
C13_Witness ==
    \E t \in Tasks :
        /\ pc[t] = "AGENT" /\ task[t].model_calls >= 1
        /\ get_session_history(task[t].session_id) # <<>>
        /\ Len(checkpoints[task[t].session_id]) >= 7

\* C14: the answer a successful process_chat returns is the content of the
\* last assistant message with non-empty content of the final message list,
\* and it is the apology exactly when the list has no such message.
C14_Answer ==
    \A t \in Tasks :
        (pc[t] = "DONE" /\ ret[t].op = "process_chat") =>
            LET m == task[t].state.messages
                I == {i \in 1..Len(m) : m[i].type = "ai" /\ m[i].content # <<>>}
            IN /\ ret[t].status = "ok"
               /\ ret[t].answer = APOLOGY <=> I = {}
               /\ I # {} =>
                     ret[t].answer = m[CHOOSE i \in I : \A j \in I : j <= i].content

\* The final message is empty and the answer is the text of an earlier one.
C14_Witness ==
    \E t \in Tasks :
        /\ pc[t] = "DONE" /\ ret[t].op = "process_chat"
        /\ task[t].state.messages[Len(task[t].state.messages)].content = <<>>
        /\ ret[t].answer = <<"a1">>

\* C15 (as stated): a successful process_chat turn appends exactly one
\* checkpoint and exactly one turn record to its session.
C15_Original ==
    \A t \in Tasks :
        (pc[t] = "DONE" /\ ret[t].op = "process_chat") =>
            /\ Len(checkpoints[task[t].session_id]) = task[t].checkpoints_before + 1
            /\ Len(get_session_history(task[t].session_id)) = task[t].records_before + 1

\* C15 (amended): a successful process_chat turn appends exactly one turn
\* record to its session, and 3 + 2n checkpoints, n being the number of times
\* the tools node ran in the turn: the input, the state after START, and
\* one after every model response and every tools step.
C15_Amended ==
    \A t \in Tasks :
        (pc[t] = "DONE" /\ ret[t].op = "process_chat") =>
            LET s == task[t].session_id
                m == task[t].state.messages
                thread == checkpoints[s]
                before == thread[task[t].checkpoints_before + 1].values.messages
                n == Cardinality({i \in (Len(before) + 1)..Len(m) :
                                     m[i].type = "ai" /\ m[i].tool_calls # <<>>})
            IN /\ Len(thread) = task[t].checkpoints_before + 3 + 2 * n
               /\ n = task[t].model_calls - 1
               /\ Len(get_session_history(s)) = task[t].records_before + 1

\* The second turn of a session is done, and its tools ran.
C15_Witness ==
    \E t \in Tasks :
        /\ pc[t] = "DONE" /\ ret[t].op = "process_chat"
        /\ task[t].records_before = 1
        /\ task[t].model_calls = 2

\* C16 (as stated): when the loop of a process_chat turn has ended, every assistant
\* message of the final message list that has tool calls is followed at once
\* by the tool messages of its calls, in their order, and the list holds
\* exactly one tool message for each of these calls.
C16_ToolCallsAnswered ==
    \A t \in Tasks :
        (pc[t] = "DONE" /\ ret[t].op = "process_chat") =>
            LET m == task[t].state.messages
            IN \A i \in 1..Len(m) :
                  (m[i].type = "ai" /\ m[i].tool_calls # <<>>) =>
                      LET calls == m[i].tool_calls
                      IN /\ i + Len(calls) <= Len(m)
                         /\ \A j \in 1..Len(calls) :
                               /\ m[i + j].type = "tool"
                               /\ m[i + j].tool_call_id = calls[j].id
                               /\ Cardinality({k \in 1..Len(m) :
                                     /\ m[k].type = "tool"
                                     /\ m[k].tool_call_id = calls[j].id}) = 1

\* C17 (as stated, for N = 1 right after a completed turn): a successful
\* rollback_conversation(s, 1) leaves in the active message list no message
\* of the turn just completed, keeps every message of the earlier turns, and
\* removes exactly the turn record of that turn.
C17_Claim ==
    [][\A t \in Tasks, s \in SessionIds :
          (/\ Rollback(t, s, 1) /\ ~RollbackRefused(s, 1)
           /\ pc[t] = "DONE" /\ task[t].op = "process_chat"
           /\ task[t].session_id = s) =>
              LET final == task[t].state.messages
                  before == checkpoints[s][task[t].checkpoints_before + 1].values.messages
                  active == LatestState(s)'.messages
              IN /\ \A i \in (Len(before) + 1)..Len(final) :
                       \A j \in 1..Len(active) : active[j].id # final[i].id
                 /\ \A i \in 1..Len(before) :
                       \E j \in 1..Len(active) : active[j] = before[i]
                 /\ get_session_history(s)' =
                       SubSeq(get_session_history(s), 1,
                              Len(get_session_history(s)) - 1)]_vars

\* C19: the checkpoints of a session are an append-only log: every step of
\* every operation (a chat turn that succeeds, one that fails and rolls back,
\* an explicit rollback, a speech turn, a clear) leaves every checkpoint the
\* session had in its place and unchanged, and only adds checkpoints after
\* them; a rollback adds one and so keeps the checkpoints newer than its
\* target.
C19_AppendOnly ==
    [][\A s \in SessionIds :
          /\ Len(checkpoints'[s]) >= Len(checkpoints[s])
          /\ \A i \in 1..Len(checkpoints[s]) : checkpoints'[s][i] = checkpoints[s][i]
          /\ \A t \in Tasks, k \in Steps :
                (/\ ret'[t].op = "rollback_conversation"
                 /\ ret'[t].session_id = s
                 /\ ~RollbackRefused(s, k)
                 /\ Rollback(t, s, k)) =>
                    /\ Len(checkpoints'[s]) = Len(checkpoints[s]) + 1
                    /\ checkpoints'[s][Len(checkpoints'[s])].source = "update"]_vars

\* An explicit rollback went through on a session that held the checkpoint of
\* an earlier rollback.
C19_Witness ==
    \E t \in Tasks :
        /\ ret[t].op = "rollback_conversation" /\ ret[t].status = "ok"
        /\ LET thread == checkpoints[ret[t].session_id]
           IN /\ Len(thread) >= 5
              /\ thread[Len(thread)].source = "update"
              /\ \E i \in 1..(Len(thread) - 1) : thread[i].source = "update"

\* C20: process_speech_chat makes its one model call on the list of the speech
\* system prompt and the query, whatever the session's checkpoints hold; it
\* never goes to the tools node and never changes the checkpoints; when the
\* model answers it appends exactly one turn record (the query and the answer
\* returned); when the model call raises it appends none and raises the error.
C20_SpeechBypass ==
    [][\A t \in Tasks :
          /\ \A s \in SessionIds, q \in SpeechQueries :
                StartSpeech(t, s, q) =>
                    /\ Len(task'[t].state.messages) = 2
                    /\ task'[t].state.messages[1].type = "system"
                    /\ task'[t].state.messages[1].content = SPEECH_SYSTEM_PROMPT
                    /\ task'[t].state.messages[2].type = "human"
                    /\ task'[t].state.messages[2].content = q
                    /\ UNCHANGED <<checkpoints, sessions>>
          /\ pc[t] = "SPEECH" =>
                /\ pc'[t] \in {"SPEECH", "idle"}
                /\ UNCHANGED checkpoints
          /\ \A content \in SpeechOutputs :
                SpeechResponds(t, content) =>
                    LET s == task[t].session_id
                        old == get_session_history(s)
                        new == get_session_history(s)'
                    IN /\ task'[t].model_calls = 1
                       /\ Len(new) = Len(old) + 1
                       /\ SubSeq(new, 1, Len(old)) = old
                       /\ new[Len(new)].query = task[t].query
                       /\ new[Len(new)].response = ret'[t].answer
                       /\ ret'[t].status = "ok"
          /\ SpeechFails(t) =>
                /\ UNCHANGED <<sessions, checkpoints>>
                /\ ret'[t].op = "process_speech_chat"
                /\ ret'[t].status = "raised" /\ ret'[t].error = "ModelError"]_vars

\* A speech turn has been saved after a chat turn of the same session.
C20_Witness ==
    \E t \in Tasks :
        /\ ret[t].op = "process_speech_chat" /\ ret[t].status = "ok"
        /\ checkpoints[ret[t].session_id] # <<>>
        /\ Len(get_session_history(ret[t].session_id)) = 2

\* The message list a process_chat call loaded when it began: that of its
\* input checkpoint.
Loaded(t) ==
    checkpoints[task[t].session_id][task[t].checkpoints_before + 1].values.messages

\* The messages a process_chat call has added itself: those built from its
\* request and those of its loop.
Own(t) ==
    SubSeq(task[t].state.messages, Len(Loaded(t)) + 1, Len(task[t].state.messages))

\* Kind and text of the messages of a list
Shape(msgs) == [i \in 1..Len(msgs) |-> <<msgs[i].type, msgs[i].content>>]

\* Call u on the session of call t began while t was suspended; both are done.
OverlappedDone(t, u) ==
    /\ t # u
    /\ pc[t] = "DONE" /\ pc[u] = "DONE"
    /\ task[t].op = "process_chat" /\ task[u].op = "process_chat"
    /\ task[t].session_id = task[u].session_id
    /\ task[t].checkpoints_before \in task[u].overlaps

\* C21: process_chat calls on one session are not serialised.  When a call u
\* began while a call t was suspended and both have succeeded, u started from
\* the checkpoint a suspended run had saved last (not from an empty list); the
\* session's active message list is the final list of one of the two calls
\* alone, and it is the list of neither serial order (t's messages then u's,
\* u's then t's, after what t started from); the two turn records are there
\* in the order the calls finished.
C21_NotSerialised ==
    \A t, u \in Tasks :
        OverlappedDone(t, u) =>
            LET s == task[t].session_id
                active == LatestState(s).messages
                n == Len(get_session_history(s))
            IN /\ task[u].checkpoints_before >= 1
               /\ Loaded(u) = checkpoints[s][task[u].checkpoints_before].values.messages
               /\ Loaded(u) # <<>>
               /\ active \in {task[t].state.messages, task[u].state.messages}
               /\ Shape(active) # Shape(Loaded(t) \o Own(t) \o Own(u))
               /\ Shape(active) # Shape(Loaded(t) \o Own(u) \o Own(t))
               /\ n >= 2
               /\ {get_session_history(s)[n - 1].query, get_session_history(s)[n].query}
                     = {task[t].query, task[u].query}

\* Two overlapping calls are done, the one that began first having finished
\* last: the active list holds no message of the other call.
C21_Witness ==
    \E t, u \in Tasks :
        /\ OverlappedDone(t, u)
        /\ LatestState(task[t].session_id).messages = task[t].state.messages
        /\ task[t].model_calls = 2
        /\ task[t].query # task[u].query
        /\ \A i \in 1..Len(Own(u)) :
              \A j \in 1..Len(task[t].state.messages) :
                  task[t].state.messages[j].id # Own(u)[i].id

\* C22 (as stated): clear_session_history(s) returns true exactly when s has a
\* turn-record entry, and afterwards s has no turn records and no checkpointed
\* state, so that a following process_chat on s starts from an empty message
\* list.
C22_Claim ==
    [][\A t \in Tasks, s \in SessionIds :
          ClearSession(t, s) =>
              /\ ret'[t].existed <=> s \in DOMAIN sessions
              /\ get_session_history(s)' = <<>>
              /\ checkpoints'[s] = <<>>
              /\ LatestState(s)'.messages = <<>>]_vars

\* C23: the message list given to the first model call of a process_chat turn
\* is, in order: the agent system prompt, the messages of the session's active
\* checkpoint state, one message for every chat_history entry whose role is
\* user (a human message) or assistant (an assistant message) in the order of
\* the entries, entries of another role being skipped, and last the new query
\* as a human message.
C23_FirstCallList ==
    [][\A t \in Tasks, s \in SessionIds, r \in ChatRequests :
          (/\ pc'[t] = "AGENT"
           /\ pc[t] # "AGENT"
           /\ StartChat(t, s, r)) =>
              LET active == LatestState(s).messages
                  list == ModelMessages(task'[t].state)
                  h == r.chat_history
                  kept == {i \in 1..Len(h) : h[i].role \in {"user", "assistant"}}
                  a == Len(active)
                  n == Cardinality(kept)
              IN /\ task'[t].model_calls = 0
                 /\ Len(list) = 1 + a + n + 1
                 /\ list[1].type = "system" /\ list[1].content = AGENT_SYSTEM_PROMPT
                 /\ SubSeq(list, 2, a + 1) = active
                 /\ \A i \in kept :
                       LET m == list[1 + a + Cardinality({j \in kept : j <= i})]
                       IN /\ m.type = IF h[i].role = "user" THEN "human" ELSE "ai"
                          /\ m.content = h[i].content
                          /\ m.tool_calls = <<>>
                 /\ list[Len(list)].type = "human"
                 /\ list[Len(list)].content = r.query]_vars

\* The first model call of a turn with a three-entry chat_history (one entry
\* of role system) on a session whose active state holds an earlier turn.
C23_Witness ==
    \E t \in Tasks :
        /\ pc[t] = "AGENT" /\ task[t].model_calls = 0
        /\ task[t].query = <<"q2">>
        /\ task[t].records_before >= 1
        /\ Len(Loaded(t)) >= 2
        /\ Len(ModelMessages(task[t].state)) = Len(Loaded(t)) + 4

\* C24 (as stated): when a process_chat call fails, by an exception of a model
\* call or while the message list is built from chat_history, and its
\* automatic rollback goes through, the session's active state (message list
\* and context) is the one it had when the call began: no message of an
\* earlier turn is gone and no message of the failed turn is left.
C24_Claim ==
    [][\A t \in Tasks :
          /\ (ModelFails(t) /\ ret'[t].logged = None) =>
                LET s == task[t].session_id
                IN LatestOf(checkpoints'[s]) =
                      checkpoints[s][task[t].checkpoints_before + 1].values
          /\ \A s \in SessionIds, r \in ChatRequests :
                (/\ HistoryRaises(r.chat_history)
                 /\ StartChat(t, s, r)
                 /\ ret'[t].logged = None) =>
                      LatestState(s)' = LatestState(s)]_vars

\* C25: a process_chat call that fails (the model call raises, or building
\* the message list from chat_history raises) leaves the turn records of
\* every session as they are: no record is appended for the failed turn, and
\* the rollback of the failure path removes none (a step that changes the
\* turn records is no step of a failing call).
C25_FailureKeepsRecords ==
    [][\A t \in Tasks :
          sessions' # sessions =>
              /\ ~ModelFails(t)
              /\ \A s \in SessionIds, r \in ChatRequests :
                    ~(HistoryRaises(r.chat_history) /\ StartChat(t, s, r))
              /\ ~(/\ ret'[t] # ret[t]
                   /\ ret'[t].op = "process_chat"
                   /\ ret'[t].status = "raised")]_vars

\* A call has failed on a session that holds a turn record, and its rollback
\* has written its checkpoint.
C25_Witness ==
    \E t \in Tasks :
        /\ ret[t].op = "process_chat" /\ ret[t].status = "raised"
        /\ ret[t].error = "ModelError" /\ ret[t].logged = None
        /\ Len(get_session_history(ret[t].session_id)) >= 1
        /\ LET thread == checkpoints[ret[t].session_id]
           IN thread # <<>> /\ thread[Len(thread)].source = "update"

\* C26 (as stated): rollback_conversation with steps = 0 on a session that has
\* at least one checkpoint leaves the turn records unchanged and returns
\* their count as remaining_history; and for every accepted steps value the
\* turn records kept are a prefix of the previous list, unchanged, and
\* remaining_history is their count.
C26_Claim ==
    [][\A t \in Tasks, s \in SessionIds, k \in Steps :
          (/\ ret'[t].op = "rollback_conversation"
           /\ ~RollbackRefused(s, k)
           /\ Rollback(t, s, k)) =>
              LET old == get_session_history(s)
                  new == get_session_history(s)'
              IN /\ Len(new) <= Len(old)
                 /\ new = SubSeq(old, 1, Len(new))
                 /\ ret'[t].remaining_history = Len(new)
                 /\ k = 0 => new = old]_vars

\* The step leaves the turn records and the checkpoints of every session id
\* other than s as they are.
OthersUnchanged(s) ==
    \A x \in SessionIds \ {s} :
        /\ checkpoints'[x] = checkpoints[x]
        /\ x \in DOMAIN sessions' <=> x \in DOMAIN sessions
        /\ x \in DOMAIN sessions => sessions'[x] = sessions[x]

\* C27: every step of every operation on a session id (process_chat that
\* succeeds or fails, process_speech_chat, rollback_conversation accepted or
\* refused, clear_session_history) leaves the turn records and the
\* checkpoints of every other session id unchanged: a step that changes them
\* for a session id other than s is no step of an operation on s.
C27_Isolation ==
    [][\A t \in Tasks, s \in SessionIds :
          ~OthersUnchanged(s) =>
              /\ \A r \in ChatRequests : ~StartChat(t, s, r)
              /\ \A q \in SpeechQueries : ~StartSpeech(t, s, q)
              /\ \A k \in Steps : ~Rollback(t, s, k)
              /\ ~ClearSession(t, s)
              /\ ~(pc[t] \in InFlight /\ task[t].session_id = s)]_vars

\* A rollback on one session has removed its turn record while the other
\* session holds a turn record and checkpoints.
C27_Witness ==
    \E t \in Tasks :
        /\ ret[t].op = "rollback_conversation" /\ ret[t].status = "ok"
        /\ get_session_history(ret[t].session_id) = <<>>
        /\ \E x \in SessionIds \ {ret[t].session_id} :
              /\ Len(get_session_history(x)) >= 1
              /\ Len(checkpoints[x]) >= 3

\* Call t returns its answer in this step.
Succeeds(t) ==
    /\ pc[t] \in InFlight
    /\ pc'[t] \notin InFlight
    /\ ret'[t].status = "ok"

\* C28: with process_chat and process_speech_chat calls overlapping on one
\* session, and no rollback or clear, no turn record is lost or duplicated:
\* the step in which a call succeeds appends exactly one record, the call's
\* query and answer, after the records the session holds at that moment, all
\* of them kept; no other step changes the turn records (so n calls that
\* succeed leave exactly n more records, one per call).
C28_OneRecordPerCall ==
    [][/\ \A t \in Tasks :
             Succeeds(t) =>
                 LET s == task[t].session_id
                 IN /\ DOMAIN sessions' = DOMAIN sessions \cup {s}
                    /\ sessions'[s] =
                          Append(get_session_history(s),
                                 TurnRecord(task[t].query, ret'[t].answer))
                    /\ \A x \in DOMAIN sessions \ {s} : sessions'[x] = sessions[x]
       /\ sessions' # sessions => \E t \in Tasks : Succeeds(t)]_vars

\* A speech call and a chat call that began on an empty session while the
\* other was suspended have both succeeded: the session holds two records.
C28_Witness ==
    \E t, u \in Tasks :
        /\ ret[t].op = "process_speech_chat" /\ ret[t].status = "ok"
        /\ task[t].op = "process_speech_chat" /\ task[t].model_calls = 1
        /\ pc[u] = "DONE" /\ task[u].op = "process_chat"
        /\ task[u].session_id = task[t].session_id
        /\ task[u].checkpoints_before \in task[t].overlaps
        /\ task[t].records_before = 0 /\ task[u].records_before = 0
        /\ Len(get_session_history(task[t].session_id)) = 2

\* Every assistant message of the list that has tool calls is followed at
\* once by one tool message per call, in the order of the calls.
ToolCallsFollowed(m) ==
    \A i \in 1..Len(m) :
        (m[i].type = "ai" /\ m[i].tool_calls # <<>>) =>
            /\ i + Len(m[i].tool_calls) <= Len(m)
            /\ \A j \in 1..Len(m[i].tool_calls) :
                  /\ m[i + j].type = "tool"
                  /\ m[i + j].tool_call_id = m[i].tool_calls[j].id

\* C29 (as stated): whatever chat turns and rollbacks a session has seen,
\* every message list given to the model has each assistant message with tool
\* calls followed by one tool message per call: no state saved between the
\* agent node and the tools node is the one a later turn's model call starts
\* from.
C29_Claim ==
    \A t \in Tasks :
        (pc[t] = "AGENT" /\ task[t].op = "process_chat") =>
            ToolCallsFollowed(ModelMessages(task[t].state))

\* The places of the final list that hold the model's responses of the call:
\* the assistant messages after the query, which is the last human message.
Produced(m) == {i \in 1..Len(m) : i > LastOfType(m, "human") /\ m[i].type = "ai"}

\* C30 (as stated): the answer a successful process_chat returns is the text
\* of an assistant message the model produced during that call (or the
\* apology when it produced none with text), never the text of an assistant
\* message of an earlier turn or of the caller's chat_history.
C30_Claim ==
    \A t \in Tasks :
        (pc[t] = "DONE" /\ ret[t].op = "process_chat" /\ ret[t].status = "ok") =>
            LET m == task[t].state.messages
            IN \/ \E i \in Produced(m) :
                     m[i].content # <<>> /\ ret[t].answer = m[i].content
               \/ /\ ret[t].answer = APOLOGY
                  /\ \A i \in Produced(m) : m[i].content = <<>>

====
